---- MODULE Spec2Model ----
(***************************************************************************)
(* s3pusher: a directory watcher that uploads size-stable files to an S3   *)
(* bucket and deletes them locally after a successful upload.              *)
(*                                                                         *)
(* The model follows src/s3pusher.py.  Two threads can run the per-file    *)
(* pipeline: the main thread (startup sweeps, main lines 153-154) and the  *)
(* observer thread (on_any_event, started by observer.start(), line 156).  *)
(* Each has a frame holding the locals of the calls in progress.  The      *)
(* filesystem, the destination and the notification source are the         *)
(* environment.  Time is counted in whole seconds; time.sleep(n) advances  *)
(* the clock of the sleeping call by exactly n.                            *)
(***************************************************************************)
EXTENDS Integers, Sequences, FiniteSets, TLC

\* ------------------------------------------------------------------ bounds

\* Largest file size the external writer produces.
MaxSize == 1

\* Capacity of the notification queue of the observer.
MaxQueue == 1

\* Largest non-default timeout handed to wait_for_stable_file (SpecWait).
MaxTimeout == 3

\* The tokens of uuid4 a recorded run draws at most.
MaxTokens == 2

\* ------------------------------------------------------- program constants

STABLE_FILE_DELAY_SECONDS == 1

EXCEPTION_DELAY_SECONDS == 60

\* timeout: int = 60, the default of wait_for_stable_file.
DefaultTimeout == 60

\* last_size = -1, the sentinel no stat can report.
NoSize == -1

\* --------------------------------------------------------------- universe

\* args.directory, in command-line order.
Directories == <<"d1", "d2">>

Dirs == {Directories[i] : i \in 1..Len(Directories)}

\* The regular files that can exist.  Both live in the first directory: the
\* second directory is watched and holds a subdirectory only.
Files == {"f1", "f2"}

DirOf == [f \in Files |-> "d1"]

\* A subdirectory of the second directory: an entry that is no regular file.
Subdirs == {"sub"}

SubdirOf == [s \in Subdirs |-> "d2"]

\* A path whose directory was removed before its event is handled.
GonePath == "gone"

\* args.bucket: None when --bucket is omitted.
NoBucket == "None"

Buckets == {NoBucket, "bucket"}

NoFile == "nofile"

NoDir == "nodir"

Threads == {"main", "observer"}

\* The events the notification source delivers to on_any_event.
Events ==
    [kind : {"FileModified"}, path : Files]
        \cup [kind : {"DirModified"}, path : Dirs \cup {GonePath}]
        \cup [kind : {"Other"}, path : {GonePath}]

\* -------------------------------------------------------------- object key

\* An optional value: None, or the value itself.
None == <<>>

Some(x) == <<x>>

\* A text is a sequence of symbols: a decimal digit, "=", "/", or a word
\* without either ("year", "web", "f1", ...).
Digit == <<"0", "1", "2", "3", "4", "5", "6", "7", "8", "9">>

\* str(n) for n >= 0.
RECURSIVE Digits(_)
Digits(n) ==
    IF n < 10 THEN <<Digit[n + 1]>> ELSE Digits(n \div 10) \o <<Digit[(n % 10) + 1]>>

\* A field rendered without padding.
FormatUnpadded(n, width) == Digits(n)

\* f"{n:0width}": at least width digits, zeros in front.
Format(n, width) ==
    LET d == Digits(n)
    IN IF Len(d) >= width THEN d ELSE [i \in 1..(width - Len(d)) |-> "0"] \o d

\* A key that carries the hostname field whatever the hostname is.
TruthyAlways(hostname) == hostname # None

\* "if hostname": neither None nor the empty string.
Truthy(hostname) == hostname # None /\ hostname[1] # <<>>

\* The fields of the key in insertion order, as pairs <<k, v>>.
fields_dict(hostname, dt, token) ==
    << <<"year", Format(dt.year, 4)>>,
       <<"month", Format(dt.month, 2)>>,
       <<"day", Format(dt.day, 2)>>,
       <<"hour", Format(dt.hour, 2)>>,
       <<"minute", Format(dt.minute, 2)>>,
       <<"second", Format(dt.second, 2)>> >>
    \o (IF Truthy(hostname) THEN << <<"hostname", hostname[1]>> >> ELSE <<>>)
    \o << <<"uuid", token>> >>

\* [f"{k}={v}" for k, v in fields_dict.items() if v is not None]: no value
\* of fields_dict is None.
fields_list(d) == [i \in 1..Len(d) |-> <<d[i][1], "=">> \o d[i][2]]

\* A path is the sequence of its components; Path.name is the last one, and
\* the empty string for a path without components (Path("."), Path("/")).
PathName(path) == IF Len(path) = 0 THEN <<>> ELSE path[Len(path)]

\* sep.join(list)
RECURSIVE Join(_, _)
Join(sep, list) ==
    IF Len(list) = 0 THEN <<>>
    ELSE IF Len(list) = 1 THEN list[1]
    ELSE list[1] \o sep \o Join(sep, Tail(list))

\* get_s3_object_key(filename, hostname) at the time dt, uuid4() returning
\* token. A Path is always true, so "if filename" is "filename is not None".
get_s3_object_key(filename, hostname, dt, token) ==
    LET fields == fields_list(fields_dict(hostname, dt, token))
        full == IF filename # None THEN Append(fields, PathName(filename[1])) ELSE fields
    IN Join(<<"/">>, full)

\* The call get_s3_object_key(filename, hostname) and the key it returned.
KeyCall(filename, hostname, dt, token) ==
    [filename |-> filename, hostname |-> hostname, dt |-> dt, uuid |-> token,
     text |-> get_s3_object_key(filename, hostname, dt, token)]

NoKey == None

\* The text of the n-th token uuid4 returns.
Uuid(n) == <<"u">> \o Digits(n)

\* datetime.now(tz=UTC): the instants a key is generated at.
Times ==
    [year : {1, 987, 2026, 9999}, month : {1, 12}, day : {9, 31},
     hour : {0, 23}, minute : {5}, second : {0, 59}]

\* The instants of a run of the program: two calls may fall in the same
\* second.
Now == {[year |-> 2026, month |-> 11, day |-> 2, hour |-> 7, minute |-> 5, second |-> s] :
            s \in {8, 9}}

\* --hostname: absent, empty, a name, a name with a "/" in it.
Hostnames == {None, Some(<<>>), Some(<<"web">>), Some(<<"a", "/", "b">>)}

\* The path of a watched file.
PathOf(f) == << <<DirOf[f]>>, <<f>> >>

\* The filename argument: absent, a watched file, a file whose name reads
\* as a field, a path without components.
Filenames ==
    {None, Some(<<>>)} \cup {Some(PathOf(f)) : f \in Files}
        \cup {Some(<< <<"d1">>, <<"hostname", "=", "web">> >>)}

VARIABLES
    bucket,     \* self.bucket
    hostname,   \* self.hostname
    keylog,     \* the tokens uuid4 has returned and the keys used, if recorded
    present,    \* the files that exist on disk
    size,       \* st_size of each file
    queue,      \* the observer's event queue
    scheduled,  \* the directories handed to observer.schedule
    watching,   \* observer.start() has run: notifications are produced
    stopped,    \* observer.stop() has run
    mainPc,     \* position of main
    dirIdx,     \* index of the directory main is at (line 153)
    fr          \* the frame of each thread

vars == <<bucket, hostname, keylog, present, size, queue, scheduled, watching, stopped, mainPc, dirIdx, fr>>

env == <<present, size, queue>>

ctl == <<bucket, hostname, scheduled, watching, stopped, mainPc, dirIdx>>

\* ------------------------------------------------------------------ frames

\* The locals of a thread that is in no call.
IdleFrame ==
    [pc |-> "idle", directory |-> NoDir, todo |-> <<>>, filename |-> NoFile,
     timeout |-> 0, elapsed |-> 0, last_size |-> NoSize, stable |-> FALSE,
     key |-> NoKey, called |-> FALSE, streamed |-> NoSize, uploaded |-> FALSE,
     removed |-> FALSE, outcome |-> "none", delay |-> 0]

\* The call upload_file_to_s3(f), at the first evaluation of the loop
\* condition of wait_for_stable_file(f, timeout): start_time taken,
\* last_size = -1.
CallFrame(old, f, timeout) ==
    [IdleFrame EXCEPT !.pc = "wfs_loop", !.directory = old.directory,
                      !.todo = old.todo, !.filename = f, !.timeout = timeout]

is_file(p) == p \in present

is_dir(p) == p \in Dirs

\* All orders in which a finite set can be listed.
Perms(S) ==
    {s \in [1..Cardinality(S) -> S] : \A i, j \in 1..Cardinality(S) : s[i] = s[j] => i = j}

\* --------------------------------------------------- notification source

DeliveringBeforeStart == ~stopped

DeliveringAfterStop == watching

\* The emitters of the scheduled directories run from observer.start() to
\* observer.stop().
Delivering == watching /\ ~stopped

\* The observer's queue skips an event equal to the one queued last.
Repeats(q, e) == Len(q) > 0 /\ q[Len(q)] = e

CanNotify(q, e) == Repeats(q, e) \/ Len(q) < MaxQueue

Notify(q, e) ==
    IF ~Delivering \/ Repeats(q, e) \/ Len(q) >= MaxQueue THEN q ELSE Append(q, e)

DirModified(d) == [kind |-> "DirModified", path |-> d]

FileModified(f) == [kind |-> "FileModified", path |-> f]


\* ------------------------------------------------------------ environment

\* An external writer creates f (empty); the watched directory changes.
CreateFile(f) ==
    /\ f \notin present
    /\ ~Delivering \/ CanNotify(queue, DirModified(DirOf[f]))
    /\ present' = present \cup {f}
    /\ size' = [size EXCEPT ![f] = 0]
    /\ queue' = Notify(queue, DirModified(DirOf[f]))
    /\ UNCHANGED <<ctl, keylog, fr>>

\* An external writer changes the size of f (append, truncate, rewrite).
WriteFile(f, s) ==
    /\ f \in present
    /\ s # size[f]
    /\ ~Delivering \/ CanNotify(queue, FileModified(f))
    /\ size' = [size EXCEPT ![f] = s]
    /\ queue' = Notify(queue, FileModified(f))
    /\ UNCHANGED <<present, ctl, keylog, fr>>

\* Something other than the program removes f.
DeleteFile(f) ==
    /\ f \in present
    /\ ~Delivering \/ CanNotify(queue, DirModified(DirOf[f]))
    /\ present' = present \ {f}
    /\ queue' = Notify(queue, DirModified(DirOf[f]))
    /\ UNCHANGED <<size, ctl, keylog, fr>>

\* The notification source reports an event of a kind the handler does not
\* consume (created, deleted, moved, closed, opened), or a change of a
\* directory that is gone by the time the event is handled.
ForeignEvent(e) ==
    /\ Delivering
    /\ e.path = GonePath
    /\ CanNotify(queue, e)
    /\ queue' = Notify(queue, e)
    /\ UNCHANGED <<present, size, ctl, keylog, fr>>

\* ------------------------------------------------- wait_for_stable_file

\* A loop that gives up one poll early.
LoopCondEarly(f) == f.elapsed + STABLE_FILE_DELAY_SECONDS < f.timeout

\* while time.time() - start_time < timeout
LoopCond(f) == f.elapsed < f.timeout

\* A comparison that takes the first observation for a repeated one.
SameSizeOrFirst(current_size, last_size) ==
    current_size = last_size \/ last_size = NoSize

\* if current_size == last_size
SameSize(current_size, last_size) == current_size = last_size

\* The loop condition holds, stat succeeds and reports the size seen last:
\* return True.
WfsStable(t) ==
    /\ fr[t].pc = "wfs_loop"
    /\ LoopCond(fr[t])
    /\ is_file(fr[t].filename)
    /\ SameSize(size[fr[t].filename], fr[t].last_size)
    /\ fr' = [fr EXCEPT ![t].pc = "wfs_ret", ![t].stable = TRUE]
    /\ UNCHANGED <<env, ctl, keylog>>

\* stat succeeds and reports another size: last_size = current_size.
WfsChanged(t) ==
    /\ fr[t].pc = "wfs_loop"
    /\ LoopCond(fr[t])
    /\ is_file(fr[t].filename)
    /\ ~SameSize(size[fr[t].filename], fr[t].last_size)
    /\ fr' = [fr EXCEPT ![t].pc = "wfs_sleep", ![t].last_size = size[fr[t].filename]]
    /\ UNCHANGED <<env, ctl, keylog>>

\* A clause that swallows the error and goes on polling.
NotFoundIgnored(f) == [f EXCEPT !.pc = "wfs_sleep", !.outcome = "vanished"]

\* except FileNotFoundError: return False
NotFound(f) == [f EXCEPT !.pc = "wfs_ret", !.outcome = "vanished"]

\* stat raises FileNotFoundError.
WfsNotFound(t) ==
    /\ fr[t].pc = "wfs_loop"
    /\ LoopCond(fr[t])
    /\ ~is_file(fr[t].filename)
    /\ fr' = [fr EXCEPT ![t] = NotFound(fr[t])]
    /\ UNCHANGED <<env, ctl, keylog>>

\* stat raises an OSError that is no FileNotFoundError (PermissionError,
\* NotADirectoryError, an I/O error): no handler of the call chain catches
\* it, the exception leaves upload_file_to_s3 and its callers.
WfsStatError(t) ==
    /\ fr[t].pc = "wfs_loop"
    /\ LoopCond(fr[t])
    /\ fr' = [fr EXCEPT ![t] = [IdleFrame EXCEPT !.pc = "raised"]]
    /\ UNCHANGED <<env, ctl, keylog>>

\* The loop condition fails: warning, return False.
WfsTimeout(t) ==
    /\ fr[t].pc = "wfs_loop"
    /\ ~LoopCond(fr[t])
    /\ fr' = [fr EXCEPT ![t].pc = "wfs_ret", ![t].outcome = "timeout"]
    /\ UNCHANGED <<env, ctl, keylog>>

\* time.sleep(STABLE_FILE_DELAY_SECONDS)
WfsSleep(t) ==
    /\ fr[t].pc = "wfs_sleep"
    /\ fr' = [fr EXCEPT ![t].pc = "wfs_loop",
                        ![t].elapsed = fr[t].elapsed + STABLE_FILE_DELAY_SECONDS]
    /\ UNCHANGED <<env, ctl, keylog>>

\* ---------------------------------------------------- upload_file_to_s3

\* A caller that ignores the result of the wait.
AlwaysProceed(stable) == "client"

\* if not self.wait_for_stable_file(filename): return
AfterWait(stable) == IF stable THEN "client" ELSE "ret"

\* wait_for_stable_file returns to upload_file_to_s3; its locals end with
\* the call.
WfsReturn(t) ==
    /\ fr[t].pc = "wfs_ret"
    /\ fr' = [fr EXCEPT ![t].pc = AfterWait(fr[t].stable),
                        ![t].timeout = 0, ![t].elapsed = 0, ![t].last_size = NoSize]
    /\ UNCHANGED <<env, ctl, keylog>>

\* A destination call that accepts a missing bucket.
UploadResultsAnyBucket(b) == {"return", "raise"}

\* What s3_client.upload_fileobj(fp, bucket, key) can do: it raises for a
\* bucket that is None, and otherwise returns or raises.
UploadResults(b) == IF b = NoBucket THEN {"raise"} ELSE {"return", "raise"}

\* A call that returns after the destination call without the unlink.
AfterUploadNoUnlink(result) == IF result = "return" THEN "ret" ELSE "except"

\* An unlink that runs whatever the destination call did (a finally clause).
AfterUploadAlways(result) == "unlink"

\* Where control goes after the destination call: line 62 and on to the
\* unlink, or the except clause.
AfterUpload(result) == IF result = "return" THEN "unlink" ELSE "except"

\* An except clause that pauses for the poll interval instead.
ExceptShortSleep == STABLE_FILE_DELAY_SECONDS

\* The pause of the except clause.
ExceptSleep == EXCEPTION_DELAY_SECONDS

\* A uuid4 that returns the same token at every call.
uuid4Constant(log) == Uuid(0)

\* str(uuid.uuid4()): a token uuid4 has not returned before. Where no record
\* is kept, one text stands for every token.
uuid4(log) == IF log = None THEN Uuid(0) ELSE Uuid(log[1].drawn + 1)

\* The record, once uuid4 has returned one more token.
Drawn(log) == IF log = None THEN None ELSE Some([log[1] EXCEPT !.drawn = @ + 1])

\* The record, once the destination call has been made with key k.
Attempted(log, k) == IF log = None THEN None ELSE Some([log[1] EXCEPT !.attempts = Append(@, k)])

\* A record that is kept, and empty.
EmptyLog == Some([drawn |-> 0, attempts |-> <<>>])

\* boto3.client("s3") raises.
ClientError(t) ==
    /\ fr[t].pc = "client"
    /\ fr' = [fr EXCEPT ![t].pc = "except"]
    /\ UNCHANGED <<env, ctl, keylog>>

\* boto3.client("s3") and get_s3_object_key(hostname=self.hostname,
\* filename=filename): lines 54-59.
Client(t) ==
    /\ fr[t].pc = "client"
    /\ keylog # None => keylog[1].drawn < MaxTokens
    /\ \E dt \in Now :
          fr' = [fr EXCEPT ![t].pc = "open",
                           ![t].key = Some(KeyCall(Some(PathOf(fr[t].filename)), hostname,
                                                   dt, uuid4(keylog)))]
    /\ keylog' = Drawn(keylog)
    /\ UNCHANGED <<env, ctl>>

\* open(filename, "rb") succeeds.
Open(t) ==
    /\ fr[t].pc = "open"
    /\ is_file(fr[t].filename)
    /\ fr' = [fr EXCEPT ![t].pc = "upload"]
    /\ UNCHANGED <<env, ctl, keylog>>

\* open raises: the file is gone, or it cannot be read.
OpenError(t) ==
    /\ fr[t].pc = "open"
    /\ fr' = [fr EXCEPT ![t].pc = "except"]
    /\ UNCHANGED <<env, ctl, keylog>>

\* s3_client.upload_fileobj(fp, self.bucket, s3_object_key)
Upload(t) ==
    /\ fr[t].pc = "upload"
    /\ \E result \in UploadResults(bucket) :
          fr' = [fr EXCEPT ![t].pc = AfterUpload(result),
                           ![t].called = TRUE,
                           ![t].streamed = size[fr[t].filename],
                           ![t].uploaded = (result = "return")]
    /\ keylog' = Attempted(keylog, fr[t].key[1])
    /\ UNCHANGED <<env, ctl>>

\* filename.unlink() succeeds; the watched directory changes.
Unlink(t) ==
    /\ fr[t].pc = "unlink"
    /\ is_file(fr[t].filename)
    /\ present' = present \ {fr[t].filename}
    /\ queue' = Notify(queue, DirModified(DirOf[fr[t].filename]))
    /\ fr' = [fr EXCEPT ![t].pc = "ret", ![t].removed = TRUE, ![t].outcome = "success"]
    /\ UNCHANGED <<size, ctl, keylog>>

\* filename.unlink() raises: the file is gone, or may not be removed.
UnlinkError(t) ==
    /\ fr[t].pc = "unlink"
    /\ fr' = [fr EXCEPT ![t].pc = "except"]
    /\ UNCHANGED <<env, ctl, keylog>>

\* except Exception: log "Failed to upload".
Except(t) ==
    /\ fr[t].pc = "except"
    /\ fr' = [fr EXCEPT ![t].pc = "backoff", ![t].outcome = "failure"]
    /\ UNCHANGED <<env, ctl, keylog>>

\* time.sleep(EXCEPTION_DELAY_SECONDS)
Backoff(t) ==
    /\ fr[t].pc = "backoff"
    /\ fr' = [fr EXCEPT ![t].pc = "ret", ![t].delay = ExceptSleep]
    /\ UNCHANGED <<env, ctl, keylog>>

\* upload_file_to_s3 returns to upload_directory_to_s3 or on_any_event.
Return(t) ==
    /\ fr[t].pc = "ret"
    /\ fr' = [fr EXCEPT ![t] =
                 IF fr[t].directory = NoDir
                 THEN IdleFrame
                 ELSE [IdleFrame EXCEPT !.pc = "entry", !.directory = fr[t].directory,
                                        !.todo = fr[t].todo]]
    /\ UNCHANGED <<env, ctl, keylog>>

\* ----------------------------------------------- upload_directory_to_s3

\* The direct entries of the directory d: its files and its subdirectories.
Entries(d) ==
    {f \in present : DirOf[f] = d} \cup {e \in Subdirs : SubdirOf[e] = d}

\* directory.glob("*") lists the entries of the directory, in any order.
Glob(t) ==
    /\ fr[t].pc = "glob"
    /\ \E listing \in Perms(Entries(fr[t].directory)) :
          fr' = [fr EXCEPT ![t].pc = "entry", ![t].todo = listing]
    /\ UNCHANGED <<env, ctl, keylog>>

\* One iteration of the for loop: if filename.is_file(), upload_file_to_s3.
Entry(t) ==
    /\ fr[t].pc = "entry"
    /\ fr[t].todo # <<>>
    /\ LET f == Head(fr[t].todo)
           rest == [fr[t] EXCEPT !.todo = Tail(fr[t].todo)]
       IN fr' = [fr EXCEPT ![t] = IF is_file(f) THEN CallFrame(rest, f, DefaultTimeout)
                                                ELSE rest]
    /\ UNCHANGED <<env, ctl, keylog>>

\* The listing is exhausted: upload_directory_to_s3 returns.
SweepDone(t) ==
    /\ fr[t].pc = "entry"
    /\ fr[t].todo = <<>>
    /\ fr' = [fr EXCEPT ![t] = IdleFrame]
    /\ UNCHANGED <<env, ctl, keylog>>

\* --------------------------------------------------------- on_any_event

\* A handler that does not look whether the path of the event still exists.
DispatchedUnchecked(e) ==
    CASE e.kind = "DirModified" /\ is_dir(e.path) ->
            [IdleFrame EXCEPT !.pc = "glob", !.directory = e.path]
      [] e.kind = "FileModified" /\ e.path \in Files ->
            CallFrame(IdleFrame, e.path, DefaultTimeout)
      [] OTHER -> IdleFrame

\* The frame on_any_event leaves the observer thread in for event e.
Dispatched(e) ==
    CASE e.kind = "DirModified" /\ is_dir(e.path) ->
            [IdleFrame EXCEPT !.pc = "glob", !.directory = e.path]
      [] e.kind = "FileModified" /\ is_file(e.path) ->
            CallFrame(IdleFrame, e.path, DefaultTimeout)
      [] OTHER -> IdleFrame

\* The observer thread takes the next event and calls on_any_event.
Dispatch ==
    /\ Delivering
    /\ fr["observer"].pc = "idle"
    /\ queue # <<>>
    /\ queue' = Tail(queue)
    /\ fr' = [fr EXCEPT !["observer"] = Dispatched(Head(queue))]
    /\ UNCHANGED <<present, size, ctl, keylog>>

\* ------------------------------------------------------------------ main

\* event_handler.upload_directory_to_s3(Path(directory))
MainSweep ==
    /\ mainPc = "for"
    /\ dirIdx <= Len(Directories)
    /\ mainPc' = "sweep"
    /\ fr' = [fr EXCEPT !["main"] =
                 [IdleFrame EXCEPT !.pc = "glob", !.directory = Directories[dirIdx]]]
    /\ UNCHANGED <<env, bucket, hostname, keylog, scheduled, watching, stopped, dirIdx>>

\* observer.schedule(event_handler, directory)
MainSchedule ==
    /\ mainPc = "sweep"
    /\ fr["main"].pc = "idle"
    /\ scheduled' = scheduled \cup {Directories[dirIdx]}
    /\ dirIdx' = dirIdx + 1
    /\ mainPc' = "for"
    /\ UNCHANGED <<env, bucket, hostname, keylog, watching, stopped, fr>>

\* observer.start()
MainStart ==
    /\ mainPc = "for"
    /\ dirIdx > Len(Directories)
    /\ watching' = TRUE
    /\ mainPc' = "loop"
    /\ UNCHANGED <<env, bucket, hostname, keylog, scheduled, stopped, dirIdx, fr>>

\* An exception of the startup sweep leaves main: the process ends.
MainCrash ==
    /\ mainPc = "sweep"
    /\ fr["main"].pc = "raised"
    /\ mainPc' = "crashed"
    /\ UNCHANGED <<env, bucket, hostname, keylog, scheduled, watching, stopped, dirIdx, fr>>

\* The wait loop of line 159 is interrupted; finally: observer.stop().
\* The emitters stop, and the events still queued are never delivered.
MainStop ==
    /\ mainPc = "loop"
    /\ stopped' = TRUE
    /\ queue' = <<>>
    /\ mainPc' = "join"
    /\ UNCHANGED <<present, size, bucket, hostname, keylog, scheduled, watching, dirIdx, fr>>

\* observer.join() returns once the observer thread has ended.
MainJoin ==
    /\ mainPc = "join"
    /\ fr["observer"].pc \in {"idle", "raised"}
    /\ mainPc' = "done"
    /\ UNCHANGED <<env, bucket, hostname, keylog, scheduled, watching, stopped, dirIdx, fr>>

\* ------------------------------------------------------- specifications

\* A step of the thread t inside the handler.
Step(t) ==
    \/ WfsStable(t)
    \/ WfsChanged(t)
    \/ WfsNotFound(t)
    \/ WfsStatError(t)
    \/ WfsTimeout(t)
    \/ WfsSleep(t)
    \/ WfsReturn(t)
    \/ ClientError(t)
    \/ Client(t)
    \/ Open(t)
    \/ OpenError(t)
    \/ Upload(t)
    \/ Unlink(t)
    \/ UnlinkError(t)
    \/ Except(t)
    \/ Backoff(t)
    \/ Return(t)
    \/ Glob(t)
    \/ Entry(t)
    \/ SweepDone(t)

Main ==
    \/ MainSweep
    \/ MainSchedule
    \/ MainStart
    \/ MainCrash
    \/ MainStop
    \/ MainJoin

Environment ==
    \/ \E f \in Files : CreateFile(f)
    \/ \E f \in Files : \E s \in 0..MaxSize : WriteFile(f, s)
    \/ \E f \in Files : DeleteFile(f)
    \/ \E e \in Events : ForeignEvent(e)

\* The program is started without --hostname (the hostname enters nothing
\* but the text of the key), and no record of tokens and keys is kept.
Init ==
    /\ bucket \in Buckets
    /\ hostname = None
    /\ keylog = None
    /\ present \in SUBSET Files
    /\ size \in [Files -> 0..MaxSize]
    /\ \A f \in Files : f \notin present => size[f] = 0
    /\ queue = <<>>
    /\ scheduled = {}
    /\ watching = FALSE
    /\ stopped = FALSE
    /\ mainPc = "for"
    /\ dirIdx = 1
    /\ fr = [t \in Threads |-> IdleFrame]

Next ==
    \/ \E t \in Threads : Step(t)
    \/ Dispatch
    \/ Main
    \/ Environment

Spec == Init /\ [][Next]_vars

\* One call upload_file_to_s3(f), as on_any_event makes it, for a file in any
\* state.
InitCall ==
    /\ bucket \in Buckets
    /\ hostname = None
    /\ keylog = None
    /\ present \in SUBSET Files
    /\ size \in [Files -> 0..MaxSize]
    /\ \A f \in Files : f \notin present => size[f] = 0
    /\ queue = <<>>
    /\ scheduled = {}
    /\ watching = FALSE
    /\ stopped = FALSE
    /\ mainPc = "call"
    /\ dirIdx = 1
    /\ \E f \in Files :
          fr = [t \in Threads |-> IF t = "main" THEN CallFrame(IdleFrame, f, DefaultTimeout)
                                                ELSE IdleFrame]

CallStep ==
    \/ WfsStable("main")
    \/ WfsChanged("main")
    \/ WfsNotFound("main")
    \/ WfsStatError("main")
    \/ WfsTimeout("main")
    \/ WfsSleep("main")
    \/ WfsReturn("main")
    \/ ClientError("main")
    \/ Client("main")
    \/ Open("main")
    \/ OpenError("main")
    \/ Upload("main")
    \/ Unlink("main")
    \/ UnlinkError("main")
    \/ Except("main")
    \/ Backoff("main")
    \/ Return("main")

CallEnvironment ==
    \/ \E f \in Files : CreateFile(f)
    \/ \E f \in Files : \E s \in 0..MaxSize : WriteFile(f, s)
    \/ \E f \in Files : DeleteFile(f)

NextCall == CallStep \/ CallEnvironment

\* The thread runs and its sleeps end: while the call can take a step, it
\* eventually takes one.
FairSpecCall == InitCall /\ [][NextCall]_vars /\ WF_vars(CallStep)

\* wait_for_stable_file(f, timeout) on its own, for a file in any state and
\* for the default and other positive timeouts.
Timeouts == (1..MaxTimeout) \cup {DefaultTimeout}

InitWait ==
    /\ bucket \in Buckets
    /\ hostname = None
    /\ keylog = None
    /\ present \in SUBSET Files
    /\ size \in [Files -> 0..MaxSize]
    /\ \A f \in Files : f \notin present => size[f] = 0
    /\ queue = <<>>
    /\ scheduled = {}
    /\ watching = FALSE
    /\ stopped = FALSE
    /\ mainPc = "wait"
    /\ dirIdx = 1
    /\ \E f \in Files : \E timeout \in Timeouts :
          fr = [t \in Threads |-> IF t = "main" THEN CallFrame(IdleFrame, f, timeout)
                                                ELSE IdleFrame]

WaitStep ==
    \/ WfsStable("main")
    \/ WfsChanged("main")
    \/ WfsNotFound("main")
    \/ WfsStatError("main")
    \/ WfsTimeout("main")
    \/ WfsSleep("main")

WaitEnvironment ==
    \/ \E f \in Files : CreateFile(f)
    \/ \E f \in Files : \E s \in 0..MaxSize : WriteFile(f, s)
    \/ \E f \in Files : DeleteFile(f)

NextWait == WaitStep \/ WaitEnvironment

SpecWait == InitWait /\ [][NextWait]_vars

\* get_s3_object_key(filename, self.hostname) on its own, for any filename,
\* hostname and time; uuid4 returns a new token at each call.
InitKey ==
    /\ bucket \in Buckets
    /\ hostname \in Hostnames
    /\ keylog = EmptyLog
    /\ present = {}
    /\ size = [f \in Files |-> 0]
    /\ queue = <<>>
    /\ scheduled = {}
    /\ watching = FALSE
    /\ stopped = FALSE
    /\ mainPc = "key"
    /\ dirIdx = 1
    /\ fr = [t \in Threads |-> IdleFrame]

GetKey ==
    /\ mainPc = "key"
    /\ keylog[1].drawn < MaxTokens
    /\ \E filename \in Filenames : \E dt \in Times :
          fr' = [fr EXCEPT !["main"].key =
                    Some(KeyCall(filename, hostname, dt, uuid4(keylog)))]
    /\ keylog' = Drawn(keylog)
    /\ UNCHANGED <<env, ctl>>

NextKey == GetKey

SpecKey == InitKey /\ [][NextKey]_vars

\* Calls of upload_file_to_s3, one after the other, for files that no other
\* process touches; the tokens drawn and the keys used are recorded.
InitUploads ==
    /\ bucket \in Buckets
    /\ hostname \in Hostnames
    /\ keylog = EmptyLog
    /\ present \in SUBSET Files
    /\ size \in [Files -> 0..MaxSize]
    /\ \A f \in Files : f \notin present => size[f] = 0
    /\ queue = <<>>
    /\ scheduled = {}
    /\ watching = FALSE
    /\ stopped = FALSE
    /\ mainPc = "uploads"
    /\ dirIdx = 1
    /\ fr = [t \in Threads |-> IdleFrame]

\* on_any_event for a file-modified event of f.
CallAgain ==
    /\ mainPc = "uploads"
    /\ fr["main"].pc = "idle"
    /\ \E f \in Files : fr' = [fr EXCEPT !["main"] = Dispatched(FileModified(f))]
    /\ UNCHANGED <<env, ctl, keylog>>

UploadsStep ==
    \/ WfsStable("main")
    \/ WfsChanged("main")
    \/ WfsSleep("main")
    \/ WfsReturn("main")
    \/ ClientError("main")
    \/ Client("main")
    \/ Open("main")
    \/ OpenError("main")
    \/ Upload("main")
    \/ Unlink("main")
    \/ UnlinkError("main")
    \/ Except("main")
    \/ Backoff("main")
    \/ Return("main")

NextUploads == CallAgain \/ UploadsStep

SpecUploads == InitUploads /\ [][NextUploads]_vars

\* One call upload_directory_to_s3(d), as main and on_any_event make it, for
\* a directory whose entries no other process touches.
InitSweep ==
    /\ bucket \in Buckets
    /\ hostname = None
    /\ keylog = None
    /\ present \in SUBSET Files
    /\ size \in [Files -> 0..MaxSize]
    /\ \A f \in Files : f \notin present => size[f] = 0
    /\ queue = <<>>
    /\ scheduled = {}
    /\ watching = FALSE
    /\ stopped = FALSE
    /\ mainPc = "sweepcall"
    /\ dirIdx = 1
    /\ \E d \in Dirs :
          fr = [t \in Threads |-> IF t = "main"
                                    THEN [IdleFrame EXCEPT !.pc = "glob", !.directory = d]
                                    ELSE IdleFrame]

SweepStep ==
    \/ Glob("main")
    \/ Entry("main")
    \/ SweepDone("main")
    \/ WfsStable("main")
    \/ WfsChanged("main")
    \/ WfsStatError("main")
    \/ WfsSleep("main")
    \/ WfsReturn("main")
    \/ ClientError("main")
    \/ Client("main")
    \/ Open("main")
    \/ OpenError("main")
    \/ Upload("main")
    \/ Unlink("main")
    \/ UnlinkError("main")
    \/ Except("main")
    \/ Backoff("main")
    \/ Return("main")

NextSweep == SweepStep

SpecSweep == InitSweep /\ [][NextSweep]_vars

\* The running program (startup over, directories empty, a bucket
\* configured) while files arrive: an external writer creates a file and
\* writes it once; nobody else deletes or rewrites it, and main is not
\* interrupted.
InitArrivals ==
    /\ bucket = "bucket"
    /\ hostname = None
    /\ keylog = None
    /\ present = {}
    /\ size = [f \in Files |-> 0]
    /\ queue = <<>>
    /\ scheduled = Dirs
    /\ watching = TRUE
    /\ stopped = FALSE
    /\ mainPc = "loop"
    /\ dirIdx = Len(Directories) + 1
    /\ fr = [t \in Threads |-> IdleFrame]

\* The writer of f writes its content, once.
WriteOnce(f, s) == size[f] = 0 /\ WriteFile(f, s)

Arrival ==
    \/ \E f \in Files : CreateFile(f)
    \/ \E f \in Files : \E s \in 0..MaxSize : WriteOnce(f, s)

\* The steps of the observer thread inside the handler.
ObserverStep ==
    \/ WfsStable("observer")
    \/ WfsChanged("observer")
    \/ WfsStatError("observer")
    \/ WfsSleep("observer")
    \/ WfsReturn("observer")
    \/ ClientError("observer")
    \/ Client("observer")
    \/ Open("observer")
    \/ OpenError("observer")
    \/ Upload("observer")
    \/ Unlink("observer")
    \/ UnlinkError("observer")
    \/ Except("observer")
    \/ Backoff("observer")
    \/ Return("observer")
    \/ Glob("observer")
    \/ Entry("observer")
    \/ SweepDone("observer")

NextArrivals == Arrival \/ Dispatch \/ ObserverStep

\* Fair event delivery: a queued event is eventually handed to the handler,
\* and the observer thread keeps running while it can.
FairSpecArrivals ==
    InitArrivals /\ [][NextArrivals]_vars /\ WF_vars(Dispatch) /\ WF_vars(ObserverStep)

\* The same runs, with the interruption of main's wait loop: observer.stop()
\* and observer.join().
Shutdown == MainStop \/ MainJoin

NextStop == NextArrivals \/ Shutdown

\* The observer thread keeps running while it can, and join returns once
\* the thread has ended.
FairSpecStop ==
    InitArrivals /\ [][NextStop]_vars
        /\ WF_vars(Dispatch) /\ WF_vars(ObserverStep) /\ WF_vars(MainJoin)

\* ---------------------------------------------------------------- claims

InWait(t) == fr[t].pc \in {"wfs_loop", "wfs_sleep"}

\* A step of the program (not of the environment) takes f off the disk.
Removes(t, f) == f \in present /\ f \notin present' /\ fr'[t] # fr[t]

\* C1: a step of the handler removes a file only in a call whose destination
\* call for that file has returned; a call whose open or destination call
\* failed removes nothing.
UploadThenDelete ==
    [][\A t \in Threads : \A f \in Files :
          Removes(t, f) => fr[t].filename = f /\ fr[t].uploaded /\ fr'[t].removed]_vars

UploadFailedFileKept ==
    \E t \in Threads :
        /\ fr[t].pc = "ret"
        /\ fr[t].outcome = "failure"
        /\ fr[t].called
        /\ ~fr[t].uploaded
        /\ fr[t].filename \in present

\* C2: with no bucket configured no call attempts the destination call, so
\* that none ends as an upload Failure with its backoff.
NoBucketSkipsUpload ==
    bucket = NoBucket => \A t \in Threads : ~fr[t].called

\* C3: with no bucket configured no step of the program removes a file:
\* what was on disk before the step is on disk after it.
NoBucketNeverDeletes ==
    [][bucket = NoBucket /\ fr' # fr => present \subseteq present']_vars

NoBucketFileKept ==
    /\ bucket = NoBucket
    /\ \E t \in Threads :
          /\ fr[t].pc = "ret"
          /\ fr[t].called
          /\ fr[t].filename \in present

\* C4 as claimed: a call whose destination call succeeded ends as a Success
\* that removed the file, never as a Failure with backoff.
UploadedMeansDeleted ==
    \A t \in Threads :
        fr[t].uploaded /\ fr[t].pc = "ret" =>
            fr[t].removed /\ fr[t].outcome = "success" /\ fr[t].delay = 0

\* C4 as amended: a call whose destination call succeeded ends either as a
\* Success that removed the file, without backoff, or, when the unlink
\* raised, as a Failure with the backoff that removed nothing.
UploadedDeletedOrUnlinkFailed ==
    \A t \in Threads :
        fr[t].uploaded /\ fr[t].pc = "ret" =>
            \/ fr[t].removed /\ fr[t].outcome = "success" /\ fr[t].delay = 0
            \/ ~fr[t].removed /\ fr[t].outcome = "failure"
                  /\ fr[t].delay = EXCEPTION_DELAY_SECONDS

UploadedAndDeleted ==
    \E t \in Threads :
        /\ fr[t].pc = "ret"
        /\ fr[t].uploaded
        /\ fr[t].removed
        /\ fr[t].filename \notin present

\* C5 as claimed: for every positive timeout, a wait does not end in false
\* by timeout while the file is on disk with the size the previous poll saw.
StableReturnsTrue ==
    \A t \in Threads :
        fr[t].pc = "wfs_ret" /\ fr[t].outcome = "timeout" =>
            ~(fr[t].filename \in present /\ size[fr[t].filename] = fr[t].last_size)

\* C5 as amended: a poll that starts before the timeout has elapsed and
\* finds the file with the size of the previous poll returns true (unless the
\* stat itself raises); a wait ends in false by timeout only once the elapsed
\* time has reached the timeout.
StableBeforeTimeoutReturnsTrue ==
    [][\A t \in Threads :
          /\ fr[t].pc = "wfs_loop" /\ fr'[t] # fr[t] =>
                /\ (/\ fr[t].elapsed < fr[t].timeout
                    /\ fr[t].filename \in present
                    /\ size[fr[t].filename] = fr[t].last_size)
                      => \/ fr'[t].pc = "wfs_ret" /\ fr'[t].stable
                         \/ fr'[t].pc = "raised"
                /\ fr'[t].outcome = "timeout" => fr[t].elapsed >= fr[t].timeout]_vars

GrewThenStable ==
    \E t \in Threads :
        /\ fr[t].pc = "wfs_ret"
        /\ fr[t].stable
        /\ fr[t].timeout = DefaultTimeout
        /\ fr[t].elapsed >= 2 * STABLE_FILE_DELAY_SECONDS

\* A wait that ends by timeout returns false, and its caller then makes no
\* destination call, removes nothing and does not back off.
TimeoutSafe ==
    \A t \in Threads :
        fr[t].outcome = "timeout" =>
            /\ ~fr[t].stable
            /\ fr[t].pc \in {"wfs_ret", "ret"}
            /\ ~fr[t].called /\ ~fr[t].uploaded /\ ~fr[t].removed /\ fr[t].delay = 0

\* C6: a wait in progress always ends; one that ends by timeout returns
\* false, and its caller then neither uploads nor removes the file.
WaitTerminates ==
    /\ \A t \in Threads : InWait(t) ~> ~InWait(t)
    /\ []TimeoutSafe

TimedOutFileKept ==
    \E t \in Threads :
        /\ fr[t].pc = "ret"
        /\ fr[t].outcome = "timeout"
        /\ fr[t].filename \in present

\* C7: a stat that reports not-found ends the wait at once with false, at the
\* first poll or a later one, and no destination call, removal or backoff
\* follows in that call.
VanishedReturnsFalse ==
    \A t \in Threads :
        fr[t].outcome = "vanished" =>
            /\ ~fr[t].stable
            /\ fr[t].pc \in {"wfs_ret", "ret"}
            /\ ~fr[t].called /\ ~fr[t].uploaded /\ ~fr[t].removed /\ fr[t].delay = 0

VanishedAfterChange ==
    \E t \in Threads :
        /\ fr[t].pc = "wfs_ret"
        /\ fr[t].outcome = "vanished"
        /\ fr[t].last_size # NoSize
        /\ fr[t].elapsed > 0

\* C8: no exception leaves the handler: neither thread is ever ended by an
\* exception of the pipeline.
NoErrorEscapes ==
    mainPc # "crashed" /\ \A t \in Threads : fr[t].pc # "raised"

\* C9: a call returns after the 60-second pause exactly when it ended as a
\* Failure, and while a call pauses the other thread handles nothing.
BackoffIffFailure ==
    \A t \in Threads :
        /\ fr[t].pc = "ret" =>
              /\ fr[t].outcome = "failure" => fr[t].delay = EXCEPTION_DELAY_SECONDS
              /\ fr[t].outcome # "failure" => fr[t].delay = 0
        /\ fr[t].pc = "backoff" =>
              /\ fr[t].outcome = "failure"
              /\ \A u \in Threads \ {t} : fr[u].pc \in {"idle", "raised"}

FailureBackedOff ==
    \E t \in Threads :
        /\ fr[t].pc = "ret"
        /\ fr[t].outcome = "failure"
        /\ fr[t].delay = EXCEPTION_DELAY_SECONDS

\* The startup sweep of d is over (d has been swept and scheduled), main is
\* still before observer.start(), and notification delivery has not begun.
Gap(d) ==
    /\ mainPc \in {"for", "sweep"}
    /\ d \in scheduled
    /\ ~watching

\* An external writer creates f or changes its size.
Written(f) == f \in present' /\ (f \notin present \/ size'[f] # size[f])

\* C10: no file is written after its directory was swept and before
\* notification delivery has begun, so that every file is swept or notified.
NoStartupGap ==
    [][\A f \in Files : Written(f) => ~Gap(DirOf[f])]_vars

\* The thread t is inside the handler: in a sweep or in the pipeline of a
\* file (stability wait, upload, delete, backoff).
Handling(t) == fr[t].pc \notin {"idle", "raised"}

Keys == {fr[t].key[1] : t \in {u \in Threads : fr[u].key # NoKey}}

\* The number a text of decimal digits stands for.
RECURSIVE Value(_)
Value(text) ==
    IF Len(text) = 0 THEN 0
    ELSE 10 * Value(SubSeq(text, 1, Len(text) - 1))
            + (CHOOSE v \in 0..9 : Digit[v + 1] = text[Len(text)])

\* text is n written with exactly width decimal digits.
IsNumber(text, width, n) ==
    /\ Len(text) = width
    /\ \A i \in 1..Len(text) : \E v \in 0..9 : Digit[v + 1] = text[i]
    /\ Value(text) = n

\* At position i, text reads name=<n in width digits>/ .
FieldAt(text, i, name, width, n) ==
    /\ Len(text) >= i + width + 2
    /\ SubSeq(text, i, i + 1) = <<name, "=">>
    /\ IsNumber(SubSeq(text, i + 2, i + width + 1), width, n)
    /\ text[i + width + 2] = "/"

\* The base name of an optional path: its last component.
BaseName(filename) ==
    IF filename[1] = <<>> THEN <<>> ELSE filename[1][Len(filename[1])]

\* What follows the six time fields of the key of call k.
KeyTail(k) ==
    (IF k.hostname # None /\ k.hostname[1] # <<>>
     THEN <<"hostname", "=">> \o k.hostname[1] \o <<"/">> ELSE <<>>)
    \o <<"uuid", "=">> \o k.uuid
    \o (IF k.filename # None THEN <<"/">> \o BaseName(k.filename) ELSE <<>>)

\* C13: the key is year=YYYY/month=MM/day=DD/hour=HH/minute=MM/second=SS/,
\* zero-padded, then hostname=H/ exactly when a non-empty hostname is
\* supplied, then uuid=<token>, then /<base name> when a filename is supplied.
KeyLayout ==
    \A k \in Keys :
        /\ FieldAt(k.text, 1, "year", 4, k.dt.year)
        /\ FieldAt(k.text, 8, "month", 2, k.dt.month)
        /\ FieldAt(k.text, 13, "day", 2, k.dt.day)
        /\ FieldAt(k.text, 18, "hour", 2, k.dt.hour)
        /\ FieldAt(k.text, 23, "minute", 2, k.dt.minute)
        /\ FieldAt(k.text, 28, "second", 2, k.dt.second)
        /\ SubSeq(k.text, 33, Len(k.text)) = KeyTail(k)

\* The key of the year 1 for a hostname and a file in a directory.
PaddedKeyWithHostAndFile ==
    \E k \in Keys :
        /\ k.dt.year = 1
        /\ k.hostname = Some(<<"web">>)
        /\ k.filename = Some(PathOf("f1"))

\* The '/'-separated segments of a text.
RECURSIVE Split(_)
Split(text) ==
    IF \A i \in 1..Len(text) : text[i] # "/" THEN <<text>>
    ELSE LET i == CHOOSE i \in 1..Len(text) :
                     text[i] = "/" /\ \A j \in 1..(i - 1) : text[j] # "/"
         IN <<SubSeq(text, 1, i - 1)>> \o Split(SubSeq(text, i + 1, Len(text)))

\* The segments of the key of call k that read hostname=..., and those that
\* read hostname=h.
HostnameSegments(k) ==
    {i \in 1..Len(Split(k.text)) :
        /\ Len(Split(k.text)[i]) >= 2
        /\ SubSeq(Split(k.text)[i], 1, 2) = <<"hostname", "=">>}

SegmentsEqual(k, h) ==
    {i \in 1..Len(Split(k.text)) : Split(k.text)[i] = <<"hostname", "=">> \o h}

\* C14 as stated: for a non-empty hostname H and any filename exactly one
\* segment of the key is hostname=H, and for an empty or absent hostname no
\* segment reads hostname=... .
HostnameSegmentOnce ==
    \A k \in Keys :
        IF k.hostname # None /\ k.hostname[1] # <<>>
        THEN Cardinality(SegmentsEqual(k, k.hostname[1])) = 1
        ELSE HostnameSegments(k) = {}

\* The file name of call k does not read hostname=..., and its hostname has
\* no "/".
PlainNames(k) ==
    /\ k.filename # None =>
          \/ Len(BaseName(k.filename)) < 2
          \/ SubSeq(BaseName(k.filename), 1, 2) # <<"hostname", "=">>
    /\ k.hostname # None => \A i \in 1..Len(k.hostname[1]) : k.hostname[1][i] # "/"

\* C14, amended: the same, for a hostname without "/" and a file whose name
\* does not itself read hostname=... .
HostnameSegmentOncePlain ==
    \A k \in Keys :
        PlainNames(k) =>
            IF k.hostname # None /\ k.hostname[1] # <<>>
            THEN Cardinality(SegmentsEqual(k, k.hostname[1])) = 1
            ELSE HostnameSegments(k) = {}

\* Keys of plain names with a hostname, and with the empty hostname.
PlainKeyWithHostname ==
    \E k \in Keys :
        /\ PlainNames(k)
        /\ k.hostname = Some(<<"web">>)
        /\ k.filename = Some(PathOf("f2"))
        /\ Cardinality(HostnameSegments(k)) = 1

\* The keys the destination call has been made with, in order.
Attempts == IF keylog = None THEN <<>> ELSE keylog[1].attempts

\* C12: no two upload attempts of a run use the same object key.
NoKeyReused ==
    \A i, j \in DOMAIN Attempts : i # j => Attempts[i].text # Attempts[j].text

\* The same file has been tried twice within the same second.
RetriedInSameSecond ==
    \E i, j \in DOMAIN Attempts :
        /\ i < j
        /\ Attempts[i].filename = Attempts[j].filename
        /\ Attempts[i].dt = Attempts[j].dt
        /\ Attempts[i].uuid # Attempts[j].uuid

\* The thread t is inside upload_directory_to_s3.
InSweep(t) == fr[t].directory # NoDir

\* The sweep of t calls upload_file_to_s3 in this step.
SweepCalls(t) == InSweep(t) /\ fr[t].pc = "entry" /\ fr'[t].pc = "wfs_loop"

\* Every call of a sweep is for the next entry of its listing, a regular
\* file, which leaves the listing; between calls the listing only loses the
\* entries that are no regular files.
OneCallPerEntry(t) ==
    /\ SweepCalls(t) =>
          /\ fr'[t].filename = Head(fr[t].todo)
          /\ is_file(Head(fr[t].todo))
          /\ fr'[t].todo = Tail(fr[t].todo)
    /\ InSweep(t) /\ fr'[t].directory # NoDir /\ ~SweepCalls(t)
          /\ fr'[t].todo # fr[t].todo =>
          /\ fr[t].pc \in {"glob", "entry"}
          /\ fr[t].pc = "entry" =>
                fr'[t].todo = Tail(fr[t].todo) /\ ~is_file(Head(fr[t].todo))

\* The sweep of t ends in this step.
SweepEnds(t) == InSweep(t) /\ fr[t].pc # "glob" /\ fr'[t].directory = NoDir

\* C15: a sweep of a directory whose entries nobody else touches calls
\* upload_file_to_s3 once for every regular file of its listing and for no
\* other entry: every call is for the next entry, and the sweep ends only
\* when no regular file of the listing is left.
SweepAttemptsEveryFileOnce ==
    [][\A t \in Threads :
          /\ OneCallPerEntry(t)
          /\ SweepEnds(t) => \A i \in DOMAIN fr[t].todo : ~is_file(fr[t].todo[i])]_vars

\* The same, but for the sweeps an exception ends.
SweepAttemptsEveryFileOnceUnlessRaised ==
    [][\A t \in Threads :
          /\ OneCallPerEntry(t)
          /\ SweepEnds(t) /\ fr'[t].pc # "raised" =>
                \A i \in DOMAIN fr[t].todo : ~is_file(fr[t].todo[i])]_vars

\* No step of the upload path fails: the client is created, the file is
\* opened, the destination accepts the upload, the unlink succeeds.
NothingFails == \A t \in Threads : fr[t].pc # "except"

\* C16: when nothing of the upload path fails, every file that has arrived
\* is eventually uploaded and deleted: it leaves the directory, which in
\* these runs only the program's unlink after a successful upload does.
ArrivedEventuallyUploaded ==
    []NothingFails => \A f \in Files : (f \in present) ~> (f \notin present)

\* The same, for the runs in which no exception ends the observer thread.
ArrivedEventuallyUploadedUnlessRaised ==
    [](NothingFails /\ fr["observer"].pc # "raised")
        => \A f \in Files : (f \in present) ~> (f \notin present)

\* C17: once the wait loop of main is interrupted no handling of an event
\* starts; the stop leaves the handling in progress as it is; main returns
\* only when no handling is in progress, and it does return.
StopThenDrain ==
    /\ [][stopped' => (~Handling("observer") => ~Handling("observer")')]_vars
    /\ [][stopped' /\ ~stopped => fr' = fr]_vars
    /\ [](mainPc = "done" => stopped /\ ~Handling("observer"))
    /\ (stopped ~> (mainPc = "done"))

\* The stop has come while the observer is in the backoff of a failed upload.
StoppedDuringBackoff ==
    /\ mainPc = "join"
    /\ stopped
    /\ fr["observer"].pc = "backoff"

\* The thread t is past the stability wait, in the try of upload_file_to_s3.
InTry(t) == fr[t].pc \in {"client", "open", "upload", "unlink", "except", "backoff"}

\* C18: the wait declares a file stable only on an observation that equals
\* the observation before it, taken a poll interval earlier: never on the
\* first observation, whatever the size; and the try of upload_file_to_s3 is
\* entered only after the wait has returned true.
StableNeedsTwoEqualObservations ==
    /\ [][\A t \in Threads :
            fr'[t].stable /\ ~fr[t].stable =>
                /\ fr[t].last_size # NoSize
                /\ fr[t].elapsed >= STABLE_FILE_DELAY_SECONDS
                /\ is_file(fr[t].filename)
                /\ size[fr[t].filename] = fr[t].last_size]_vars
    /\ [](\A t \in Threads : InTry(t) \/ fr[t].called => fr[t].stable)

\* An empty file has been declared stable, on its second observation.
EmptyFileStableOnSecondLook ==
    \E t \in Threads :
        /\ fr[t].pc = "wfs_ret"
        /\ fr[t].stable
        /\ fr[t].last_size = 0
        /\ fr[t].elapsed = STABLE_FILE_DELAY_SECONDS

\* The observer thread takes the event at the head of the queue in this step.
Takes(e) ==
    /\ queue # <<>>
    /\ e = Head(queue)
    /\ queue' = Tail(queue)
    /\ ~stopped'

\* An event the handler has nothing to do for.
Irrelevant(e) ==
    \/ e.kind = "FileModified" /\ e.path \notin present
    \/ e.kind = "DirModified" /\ e.path \notin Dirs
    \/ e.kind \notin {"FileModified", "DirModified"}

\* C19: an event for a file that is no longer a regular file, for a path
\* that is no directory, or of another kind changes nothing but the queue;
\* a file-modified event of a regular file starts the pipeline for that file
\* alone, a directory-modified event of a directory starts its sweep, and
\* the observer starts a handling in no other way.
DispatchFrame ==
    [][/\ \A e \in Events :
            Takes(e) =>
               /\ Irrelevant(e) => UNCHANGED <<fr, present, size, keylog>>
               /\ e.kind = "FileModified" /\ e.path \in present =>
                     /\ fr'["observer"].pc = "wfs_loop"
                     /\ fr'["observer"].filename = e.path
                     /\ fr'["observer"].directory = NoDir
                     /\ fr'["observer"].todo = <<>>
               /\ e.kind = "DirModified" /\ e.path \in Dirs =>
                     /\ fr'["observer"].pc = "glob"
                     /\ fr'["observer"].directory = e.path
       /\ ~Handling("observer") /\ Handling("observer")' =>
             \E e \in Events : Takes(e) /\ ~Irrelevant(e)]_vars

\* The pipeline of a file-modified event has just begun, and an event of
\* another kind is next in the queue.
FilePipelineThenForeignEvent ==
    /\ fr["observer"].pc = "wfs_loop"
    /\ fr["observer"].directory = NoDir
    /\ fr["observer"].elapsed = 0
    /\ queue # <<>>
    /\ Head(queue).kind = "Other"

\* C20: the file a step of the handler deletes has, at its deletion, the
\* content that the destination call streamed: nothing has been written to
\* it since.
DeletedContentWasStreamed ==
    [][\A t \in Threads : \A f \in Files :
          Removes(t, f) => size[f] = fr[t].streamed]_vars

====
